---- MODULE Spec2Model ----
(***************************************************************************)
(* git-json-api: the Repo class (src/src/repo.js) with its Snapshot Cache  *)
(* (src/unnamed/part_000, cache.js) and its access gate (lock.js).          *)
(*                                                                         *)
(* Strings that the code takes apart (file paths, query paths) are         *)
(* sequences of one-character strings, so that split, startsWith, endsWith *)
(* and slice are computed, not assumed.  Version tokens and branch names   *)
(* are only ever interpolated into reference names and are plain strings.  *)
(***************************************************************************)
EXTENDS Integers, Sequences, FiniteSets, TLC

(***************************************************************************)
(* Bounds of the model.                                                    *)
(***************************************************************************)
\* the object database holds at most this many commits
MaxCommits == 7
\* at most this many getData/replacePath calls are started in a behaviour
MaxCalls == 2

(***************************************************************************)
(* JavaScript strings as character sequences.                              *)
(***************************************************************************)
SLASH == "/"
JsonExt == <<".", "j", "s", "o", "n">>

\* String.prototype.startsWith
StartsWith(s, prefix) ==
  /\ Len(prefix) <= Len(s)
  /\ SubSeq(s, 1, Len(prefix)) = prefix

\* String.prototype.endsWith
EndsWith(s, suffix) ==
  /\ Len(suffix) <= Len(s)
  /\ SubSeq(s, Len(s) - Len(suffix) + 1, Len(s)) = suffix

\* s.slice(0, -n)
SliceEnd(s, n) == IF Len(s) <= n THEN <<>> ELSE SubSeq(s, 1, Len(s) - n)

\* s.split("/"): the segments between separators; "" splits into [""]
RECURSIVE SplitFrom(_, _, _)
SplitFrom(s, i, cur) ==
  IF i > Len(s) THEN <<cur>>
  ELSE IF s[i] = SLASH THEN <<cur>> \o SplitFrom(s, i + 1, <<>>)
  ELSE SplitFrom(s, i + 1, Append(cur, s[i]))

Split(s) == SplitFrom(s, 1, <<>>)

\* segs is a strict prefix of the segment list other
StrictSegPrefix(segs, other) ==
  /\ Len(segs) < Len(other)
  /\ SubSeq(other, 1, Len(segs)) = segs

(***************************************************************************)
(* Documents (parsed JSON values): scalars and objects.                    *)
(***************************************************************************)
Scalar(n) == [t |-> "s", v |-> n]
Obj(f) == [t |-> "o", f |-> f]
Undefined == [t |-> "u"]
EmptyObj == Obj(<<>>)
IsObject(x) == x.t = "o"

Put(f, k, v) == [x \in (DOMAIN f) \cup {k} |-> IF x = k THEN v ELSE f[x]]

\* lodash.set(object, path, value), path an array of keys: intermediate
\* values that are not objects are replaced by {}, objects are extended
RECURSIVE LodashSet(_, _, _)
LodashSet(object, path, value) ==
  LET key == Head(path)
      objValue == IF key \in DOMAIN object.f THEN object.f[key] ELSE Undefined
      nested == IF IsObject(objValue) THEN objValue ELSE EmptyObj
  IN IF Len(path) = 1
       THEN Obj(Put(object.f, key, value))
       ELSE Obj(Put(object.f, key, LodashSet(nested, Tail(path), value)))

\* lodash.get(object, path): undefined as soon as a key is missing
RECURSIVE LodashGetFrom(_, _)
LodashGetFrom(object, path) ==
  IF path = <<>> THEN object
  ELSE IF ~IsObject(object) THEN Undefined
  ELSE IF Head(path) \notin DOMAIN object.f THEN Undefined
  ELSE LodashGetFrom(object.f[Head(path)], Tail(path))

LodashGet(object, path) ==
  IF path = <<>> THEN Undefined ELSE LodashGetFrom(object, path)

(***************************************************************************)
(* Trees and blobs.  A tree maps the path of each file of a commit to its  *)
(* blob; a blob either parses to a document or is malformed.               *)
(***************************************************************************)
Blob(doc) == [ok |-> TRUE, doc |-> doc]
BadBlob == [ok |-> FALSE, doc |-> Undefined]
EmptyTree == <<>>

\* entry.name(): the last segment of the entry's path
EntryName(path) == LET segs == Split(path) IN segs[Len(segs)]

\* all orders in which a walk may emit the entries of the set S
WalkOrders(S) ==
  {s \in [1..Cardinality(S) -> S] : \A i, j \in 1..Cardinality(S) : s[i] = s[j] => i = j}

(***************************************************************************)
(* Cache (cache.js).                                                       *)
(***************************************************************************)
\* constructor: the hash no commit has, and empty data
NoCommitHash == "0000000000000000"
CacheInit == [commitHash |-> NoCommitHash, object |-> EmptyObj, files |-> <<>>]

\* getFileEntries: the entries of the walk whose name ends in ".json"
GetFileEntries(tree) == {path \in DOMAIN tree : EndsWith(EntryName(path), JsonExt)}

\* One iteration of buildData's loop.  files[path] and the value lodash.set
\* stores in object are the same JavaScript reference when the document is
\* an object, so a later set that extends it in place shows in both:
\* aliased is the set of flat keys whose value is still that shared reference.
BuildStep(acc, entryPath, blob) ==
  LET fileData == blob.doc
      path == SliceEnd(entryPath, 5)
      segs == Split(path)
      object == LodashSet(acc.object, segs, fileData)
      kept == {q \in acc.aliased : ~StrictSegPrefix(segs, Split(q))}
      aliased == IF IsObject(fileData) THEN kept \cup {path} ELSE kept \ {path}
      files == Put(acc.files, path, fileData)
  IN [ok |-> TRUE,
      object |-> object,
      files |-> [q \in DOMAIN files |->
                   IF q \in aliased THEN LodashGet(object, Split(q)) ELSE files[q]],
      aliased |-> aliased]

\* buildData: JSON5.parse throws on a malformed blob and nothing is returned
RECURSIVE BuildFrom(_, _, _)
BuildFrom(fileEntries, tree, acc) ==
  IF fileEntries = <<>> THEN acc
  ELSE IF ~tree[Head(fileEntries)].ok THEN [acc EXCEPT !.ok = FALSE]
  ELSE BuildFrom(Tail(fileEntries), tree,
                 BuildStep(acc, Head(fileEntries), tree[Head(fileEntries)]))

BuildData(fileEntries, tree) ==
  BuildFrom(fileEntries, tree,
            [ok |-> TRUE, object |-> EmptyObj, files |-> <<>>, aliased |-> {}])

\* update that stores the hash before the build
CacheUpdateHashFirst(c, sha, tree, fileEntries) ==
  IF sha # c.commitHash
    THEN LET built == BuildData(fileEntries, tree)
         IN IF built.ok
              THEN [ok |-> TRUE, rebuilt |-> TRUE,
                    cache |-> [commitHash |-> sha, object |-> built.object,
                               files |-> built.files]]
              ELSE [ok |-> FALSE, rebuilt |-> FALSE,
                    cache |-> [c EXCEPT !.commitHash = sha]]
    ELSE [ok |-> TRUE, rebuilt |-> FALSE, cache |-> c]

\* update without the comparison of hashes
CacheUpdateAlways(c, sha, tree, fileEntries) ==
  LET built == BuildData(fileEntries, tree)
  IN IF built.ok
       THEN [ok |-> TRUE, rebuilt |-> TRUE,
             cache |-> [commitHash |-> sha, object |-> built.object,
                        files |-> built.files]]
       ELSE [ok |-> FALSE, rebuilt |-> FALSE, cache |-> c]

\* update that builds only into an empty cache
CacheUpdateOnce(c, sha, tree, fileEntries) ==
  IF c.commitHash = NoCommitHash
    THEN LET built == BuildData(fileEntries, tree)
         IN IF built.ok
              THEN [ok |-> TRUE, rebuilt |-> TRUE,
                    cache |-> [commitHash |-> sha, object |-> built.object,
                               files |-> built.files]]
              ELSE [ok |-> FALSE, rebuilt |-> FALSE, cache |-> c]
    ELSE [ok |-> TRUE, rebuilt |-> FALSE, cache |-> c]

\* update(commit): rebuild only when the hash differs; the three fields are
\* assigned together after the build, or not at all when the build throws
CacheUpdate(c, sha, tree, fileEntries) ==
  IF sha # c.commitHash
    THEN LET built == BuildData(fileEntries, tree)
         IN IF built.ok
              THEN [ok |-> TRUE, rebuilt |-> TRUE,
                    cache |-> [commitHash |-> sha, object |-> built.object,
                               files |-> built.files]]
              ELSE [ok |-> FALSE, rebuilt |-> FALSE, cache |-> c]
    ELSE [ok |-> TRUE, rebuilt |-> FALSE, cache |-> c]

GetCommitHash(c) == c.commitHash

\* getObject(path): "" is falsy
GetObject(c, path) ==
  IF path # <<>> THEN LodashGet(c.object, Split(path)) ELSE c.object

\* getFiles(path): pickBy keeps the entries whose key starts with path
GetFiles(c, path) ==
  IF path # <<>>
    THEN [file \in {f \in DOMAIN c.files : StartsWith(f, path)} |-> c.files[file]]
    ELSE c.files

(***************************************************************************)
(* The version-control engine as the code drives it (nodegit).  The object *)
(* database is a sequence of commits; commit i has hash Sha(i).            *)
(***************************************************************************)
ShaNames == <<"c1", "c2", "c3", "c4", "c5", "c6", "c7", "c8", "c9">>
Sha(i) == ShaNames[i]
NoCommit == 0

Commit(tree, parents) == [tree |-> tree, parents |-> parents]

\* the commits a revision walk started at the commits of pending visits
RECURSIVE RevWalk(_, _, _)
RevWalk(store, pending, seen) ==
  IF pending = {} THEN seen
  ELSE LET c == CHOOSE x \in pending : TRUE
           next == {store[c].parents[i] : i \in DOMAIN store[c].parents}
       IN RevWalk(store, (pending \cup next) \ (seen \cup {c}), seen \cup {c})

\* isAncestor(repo, ancestorCommit, commit): walk from commit until the
\* ancestor's id comes up (true) or the walk is over (false)
IsAncestor(store, ancestorCommit, commit) ==
  ancestorCommit \in RevWalk(store, {commit}, {})

\* the best common ancestors of two commits
MergeBases(store, a, b) ==
  LET common == RevWalk(store, {a}, {}) \cap RevWalk(store, {b}, {})
  IN {c \in common : \A d \in common \ {c} : ~IsAncestor(store, c, d)}

BlobAt(tree, path) == IF path \in DOMAIN tree THEN tree[path] ELSE [absent |-> TRUE]

\* three-way merge of one path: a side that left the base alone takes the
\* other side's version; two different changes of one file are a conflict
MergePath(base, ours, theirs, path) ==
  LET b == BlobAt(base, path)
      o == BlobAt(ours, path)
      t == BlobAt(theirs, path)
  IN IF o = t THEN [conflict |-> FALSE, blob |-> o]
     ELSE IF o = b THEN [conflict |-> FALSE, blob |-> t]
     ELSE IF t = b THEN [conflict |-> FALSE, blob |-> o]
     ELSE [conflict |-> TRUE, blob |-> o]

\* Git.Merge.commits(repo, ourCommit, theirCommit): the merged index
MergeCommits(store, ourCommit, theirCommit) ==
  LET bases == MergeBases(store, ourCommit, theirCommit)
      base == IF bases = {} THEN EmptyTree ELSE store[CHOOSE c \in bases : TRUE].tree
      ours == store[ourCommit].tree
      theirs == store[theirCommit].tree
      paths == (DOMAIN base) \cup (DOMAIN ours) \cup (DOMAIN theirs)
      merged == [path \in paths |-> MergePath(base, ours, theirs, path)]
      present == {path \in paths : merged[path].blob # [absent |-> TRUE]}
  IN [hasConflicts |-> \E path \in paths : merged[path].conflict,
      tree |-> [path \in present |-> merged[path].blob]]

\* `${reference}` in a template string: undefined prints as "undefined"
UNDEFINED == "<undefined>"
Interpolate(v) == IF v = UNDEFINED THEN "undefined" ELSE v

\* updateBranch || parentVersion
OrElse(a, b) == IF a = UNDEFINED THEN b ELSE a

\* repo.getReferenceCommit(`refs/remotes/origin/${reference}`)
GetReferenceCommit(refs, reference) ==
  IF Interpolate(reference) \in DOMAIN refs THEN refs[Interpolate(reference)] ELSE NoCommit

\* repo.getCommit(version): the commit of the local object database with
\* that hash
GetCommit(objs, version) ==
  IF \E i \in objs : Sha(i) = version THEN CHOOSE i \in objs : Sha(i) = version ELSE NoCommit

\* the message of the error getCommitByVersion throws
NotFoundMessage(version) ==
  "Branch or commit not found: '" \o Interpolate(version) \o "'"

\* getCommitByVersion without the second catch: branches only
GetCommitByVersionBranchOnly(refs, objs, version) == GetReferenceCommit(refs, version)

\* getCommitByVersion: the remote-tracking branch first, then the commit id;
\* NoCommit stands for the error thrown, whose message is NotFoundMessage
GetCommitByVersion(refs, objs, version) ==
  IF GetReferenceCommit(refs, version) # NoCommit
    THEN GetReferenceCommit(refs, version)
    ELSE GetCommit(objs, version)

\* getCommitForUpdateBranch: NoCommit stands for the thrown
\* "Invalid or missing update branch"
GetCommitForUpdateBranch(refs, reference) == GetReferenceCommit(refs, reference)

(***************************************************************************)
(* Lock (lock.js): a flag and the callers waiting for it, served in order. *)
(***************************************************************************)
LockInit == [locked |-> FALSE, queue |-> <<>>]

\* lock() resolves at once when the gate is free and nobody waits
LockFree(l) == ~l.locked /\ l.queue = <<>>
LockTake(l) == [l EXCEPT !.locked = TRUE]
LockEnqueue(l, p) == [l EXCEPT !.queue = Append(@, p)]

\* a released gate goes to the caller that has waited longest
LockCanGrant(l, p) == ~l.locked /\ l.queue # <<>> /\ Head(l.queue) = p
LockGrant(l) == [locked |-> TRUE, queue |-> Tail(l.queue)]

\* unlock()
Unlock(l) == [l EXCEPT !.locked = FALSE]

(***************************************************************************)
(* The inputs of the model: callers, version tokens, paths, documents.     *)
(***************************************************************************)
\* the calls in flight at one time: a new call takes the first free slot
Callers == {1, 2}
FirstFree(p, busy) == \A o \in Callers : o < p => o \in busy

S1 == Scalar(1)
S2 == Scalar(2)
S3 == Scalar(3)
O1 == Obj([k \in {<<"k">>} |-> S1])

PathRoot == <<>>
PathD == <<"d">>
PathR == <<"r">>
PathE == <<"e">>
FileR == <<"r">> \o JsonExt
FileD == <<"d">> \o JsonExt
FileDX == <<"d", "/", "x">> \o JsonExt
FileN == <<"n", ".", "t", "x", "t">>

\* the history the origin starts with: c1 <- c2 = master, which changed
\* r.json and added d/x.json; branch "k" adds d.json next to the directory
\* d; branch "b" has a malformed r.json
Tree1 == (FileR :> Blob(S1)) @@ (FileN :> BadBlob)
Tree2 == (FileR :> Blob(S2)) @@ (FileN :> BadBlob) @@ (FileDX :> Blob(O1))
Tree3 == (FileR :> Blob(S2)) @@ (FileN :> BadBlob) @@ (FileDX :> Blob(O1))
           @@ (FileD :> Blob(S1))
Tree4 == (FileR :> BadBlob) @@ (FileN :> BadBlob) @@ (FileDX :> Blob(O1))
InitCommits == <<Commit(Tree1, <<>>), Commit(Tree2, <<1>>), Commit(Tree3, <<2>>),
                 Commit(Tree4, <<2>>)>>
InitRefs == ("m" :> 2) @@ ("k" :> 3) @@ ("b" :> 4)

\* getData(version, path, listFiles)
ReadVersions == {"m", "k", "b", "c1", "zz"}
ReadQueries == {[path |-> PathRoot, listFiles |-> FALSE],
                [path |-> PathRoot, listFiles |-> TRUE],
                [path |-> PathD, listFiles |-> TRUE],
                [path |-> PathR, listFiles |-> TRUE]}

\* replacePath(parentVersion, updateBranch, path, files)
WriteRequest(parentVersion, updateBranch, dir, files) ==
  [parentVersion |-> parentVersion, updateBranch |-> updateBranch,
   path |-> dir, files |-> files]
WriteRequests == {
  WriteRequest("c1", "m", PathD, (<<"y">> :> O1)),
  WriteRequest("c1", "m", PathD, (<<"x">> :> S2)),
  WriteRequest("c1", "m", PathRoot, (<<"r">> :> S1)),
  WriteRequest("m", "m", PathD, (<<"y">> :> O1)),
  WriteRequest("m", UNDEFINED, PathRoot, (<<"y">> :> O1)),
  WriteRequest("m", "u", PathD, (<<"y">> :> O1)),
  WriteRequest("zz", "m", PathD, (<<"y">> :> O1)),
  WriteRequest("k", "m", PathD, (<<"y">> :> O1)),
  WriteRequest("m", "m", PathE,
               (<<"a">> :> S1) @@ ((<<"a">> \o JsonExt \o <<SLASH, "b">>) :> S2))}

\* what other clients of the origin push: one file changed per commit
PushBranches == {"m"}
ExternalEdits == {[file |-> FileR, blob |-> Blob(S3)]}

(***************************************************************************)
(* State.                                                                  *)
(***************************************************************************)
VARIABLES
  commits,    \* the object database: commit i is commits[i]
  remote,     \* origin: branch name -> commit
  tracking,   \* the clone's refs/remotes/origin/*: branch name -> commit
  have,       \* the commits present in the clone
  head,       \* the clone's HEAD commit
  workdir,    \* the files of the clone's working directory
  index,      \* the clone's index (the tracked files)
  lock,       \* this.lock
  cache,      \* this.cache
  pc,         \* where each caller's call stands
  op,         \* the arguments and locals of each caller's call
  log,        \* the latest finished calls, in the order they finished
  calls,      \* the number of calls started
  access,     \* the latest access to this.cache: who, how, gate state
  extPushes   \* the number of pushes other clients have made

vars == <<commits, remote, tracking, have, head, workdir, index, lock, cache,
          pc, op, log, calls, access, extPushes>>

gitVars == <<commits, remote, tracking, have, head, workdir, index>>
localGit == <<tracking, have, head, workdir, index>>

\* the labels at which a call is between its lock() and its unlock()
ReadSteps == {"g_fetch", "g_resolve", "g_update", "g_return"}
WriteSteps == {"r_resolve", "r_write", "r_commit", "r_push"}
Critical == ReadSteps \cup WriteSteps
Waiting == {"g_wait", "r_wait"}

NoOp == [kind |-> "none"]

\* the log keeps the latest two finished calls
Finished(l, entry) == IF Len(l) < 2 THEN Append(l, entry) ELSE <<l[2], entry>>

Init ==
  /\ commits = InitCommits
  /\ remote = InitRefs
  /\ tracking = InitRefs
  /\ have = 1..Len(InitCommits)
  /\ head = 2
  /\ workdir = Tree2
  /\ index = Tree2
  /\ lock = LockInit
  /\ cache = CacheInit
  /\ pc = [p \in Callers |-> "idle"]
  /\ op = [p \in Callers |-> NoOp]
  /\ log = <<>>
  /\ calls = 0
  /\ access = [kind |-> "none"]
  /\ extPushes = 0

\* commits that calls in flight may still create (two per write)
Reserved == 2 * Cardinality({p \in Callers : pc[p] \in {"r_wait", "r_resolve", "r_write", "r_commit"}})

(***************************************************************************)
(* Other clients of the origin.                                            *)
(***************************************************************************)
\* a client commits one edit on top of a branch (a new branch starts at
\* master) and pushes it
ExternalPush(b, e) ==
  /\ Len(commits) + Reserved < MaxCommits
  /\ LET parent == IF b \in DOMAIN remote THEN remote[b] ELSE remote["m"]
         tree == Put(commits[parent].tree, e.file, e.blob)
     IN /\ tree # commits[parent].tree
        /\ commits' = Append(commits, Commit(tree, <<parent>>))
        /\ remote' = Put(remote, b, Len(commits) + 1)
  /\ extPushes' = extPushes + 1
  /\ UNCHANGED <<localGit, lock, cache, pc, op, log, calls, access>>

(***************************************************************************)
(* Repo.getData (repo.js 25-43).                                           *)
(***************************************************************************)
\* a catch block that rethrows without unlock()
ThrowNoUnlock(p, error) ==
  /\ lock' = lock
  /\ pc' = [pc EXCEPT ![p] = "idle"]
  /\ log' = Finished(log, [op[p] EXCEPT !.ok = FALSE, !.error = error])
  /\ op' = [op EXCEPT ![p] = NoOp]

\* the catch block: unlock, then rethrow to the caller
Throw(p, error) ==
  /\ lock' = Unlock(lock)
  /\ pc' = [pc EXCEPT ![p] = "idle"]
  /\ log' = Finished(log, [op[p] EXCEPT !.ok = FALSE, !.error = error])
  /\ op' = [op EXCEPT ![p] = NoOp]

\* the catch block for a call whose arguments and locals are o
\* a catch block of a call that throws the error without unlock()
ThrowOfKeepsGate(p, o, error) ==
  /\ lock' = lock
  /\ pc' = [pc EXCEPT ![p] = "idle"]
  /\ log' = Finished(log, [o EXCEPT !.ok = FALSE, !.error = error])
  /\ op' = [op EXCEPT ![p] = NoOp]

ThrowOf(p, o, error) ==
  /\ lock' = Unlock(lock)
  /\ pc' = [pc EXCEPT ![p] = "idle"]
  /\ log' = Finished(log, [o EXCEPT !.ok = FALSE, !.error = error])
  /\ op' = [op EXCEPT ![p] = NoOp]

\* GetDataCall without the await on lock(): the call goes on at once
GetDataCallNoAwait(p) ==
  /\ pc[p] = "idle"
  /\ FirstFree(p, {o \in Callers : pc[o] # "idle"})
  /\ calls < MaxCalls
  /\ calls' = calls + 1
  /\ op' = [op EXCEPT ![p] =
       [kind |-> "getData", ok |-> TRUE, error |-> "",
        version |-> UNDEFINED,
        waited |-> ~LockFree(lock), cache0 |-> cache,
        commit |-> NoCommit, rebuilt |-> FALSE, ext |-> 0,
        commitHash |-> "", data |-> [q \in ReadQueries |-> Undefined]]]
  /\ lock' = IF LockFree(lock) THEN LockTake(lock) ELSE lock
  /\ pc' = [pc EXCEPT ![p] = "g_fetch"]
  /\ UNCHANGED <<gitVars, cache, log, access, extPushes>>

\* line 27, lock(): the call goes on when the gate is free, else it waits
GetDataCall(p) ==
  /\ pc[p] = "idle"
  /\ FirstFree(p, {o \in Callers : pc[o] # "idle"})
  /\ calls < MaxCalls
  /\ calls' = calls + 1
  /\ op' = [op EXCEPT ![p] =
       [kind |-> "getData", ok |-> TRUE, error |-> "",
        version |-> UNDEFINED,
        waited |-> ~LockFree(lock), cache0 |-> cache,
        commit |-> NoCommit, rebuilt |-> FALSE, ext |-> 0,
        commitHash |-> "", data |-> [q \in ReadQueries |-> Undefined]]]
  /\ IF LockFree(lock)
       THEN lock' = LockTake(lock) /\ pc' = [pc EXCEPT ![p] = "g_fetch"]
       ELSE lock' = LockEnqueue(lock, p) /\ pc' = [pc EXCEPT ![p] = "g_wait"]
  /\ UNCHANGED <<gitVars, cache, log, access, extPushes>>

\* line 27 for a call that waited: the gate is handed to it
GetDataAcquire(p) ==
  /\ pc[p] = "g_wait"
  /\ LockCanGrant(lock, p)
  /\ lock' = LockGrant(lock)
  /\ pc' = [pc EXCEPT ![p] = "g_fetch"]
  /\ op' = [op EXCEPT ![p].cache0 = cache]
  /\ UNCHANGED <<gitVars, cache, log, calls, access, extPushes>>

\* line 29, repo.fetch("origin"): the remote-tracking branches and the
\* object database catch up with the origin, or the fetch fails
GetDataFetch(p) ==
  /\ pc[p] = "g_fetch"
  /\ \/ /\ tracking' = [b \in (DOMAIN tracking) \cup (DOMAIN remote) |->
                          IF b \in DOMAIN remote THEN remote[b] ELSE tracking[b]]
        /\ have' = have \cup RevWalk(commits, {remote[b] : b \in DOMAIN remote}, {})
        /\ pc' = [pc EXCEPT ![p] = "g_resolve"]
        /\ op' = [op EXCEPT ![p].ext = extPushes]
        /\ UNCHANGED <<lock, log>>
     \/ /\ Throw(p, "fetch failed")
        /\ UNCHANGED <<tracking, have>>
  /\ UNCHANGED <<commits, remote, head, workdir, index, cache, calls, access, extPushes>>

\* line 30, getCommitByVersion.  version is an argument that this line is the
\* first to read, so it is drawn here.
GetDataResolve(p, version) ==
  /\ pc[p] = "g_resolve"
  /\ LET commit == GetCommitByVersion(tracking, have, version)
     IN IF commit # NoCommit
          THEN /\ op' = [op EXCEPT ![p].version = version, ![p].commit = commit]
               /\ pc' = [pc EXCEPT ![p] = "g_update"]
               /\ UNCHANGED <<lock, log>>
          ELSE ThrowOf(p, [op[p] EXCEPT !.version = version], NotFoundMessage(version))
  /\ UNCHANGED <<gitVars, cache, calls, access, extPushes>>

\* line 31, cache.update(commit): the walk emits the entries in some order
GetDataUpdate(p) ==
  /\ pc[p] = "g_update"
  /\ \E fileEntries \in WalkOrders(GetFileEntries(commits[op[p].commit].tree)) :
       LET u == CacheUpdate(cache, Sha(op[p].commit), commits[op[p].commit].tree, fileEntries)
       IN /\ cache' = u.cache
          /\ access' = [kind |-> IF u.rebuilt THEN "write" ELSE "read", by |-> p,
                        held |-> lock.locked,
                        others |-> {o \in Callers \ {p} : pc[o] \in Critical}]
          /\ IF u.ok
               THEN /\ op' = [op EXCEPT ![p].rebuilt = u.rebuilt]
                    /\ pc' = [pc EXCEPT ![p] = "g_return"]
                    /\ UNCHANGED <<lock, log>>
               ELSE Throw(p, "parse error")
  /\ UNCHANGED <<gitVars, calls, extPushes>>

\* lines 33-38: unlock(), then the result is read from the cache.  path and
\* listFiles are arguments that only these lines read and that change nothing
\* but the value returned, so the log keeps the data returned for each query
\* the call can have been made with.
GetDataReturn(p) ==
  /\ pc[p] = "g_return"
  /\ lock' = Unlock(lock)
  /\ access' = [kind |-> "read", by |-> p, held |-> lock'.locked,
                others |-> {o \in Callers \ {p} : pc[o] \in Critical}]
  /\ log' = Finished(log, [op[p] EXCEPT
                           !.commitHash = GetCommitHash(cache),
                           !.data = [q \in ReadQueries |->
                                       IF q.listFiles
                                         THEN Obj(GetFiles(cache, q.path))
                                         ELSE GetObject(cache, q.path)]])
  /\ pc' = [pc EXCEPT ![p] = "idle"]
  /\ op' = [op EXCEPT ![p] = NoOp]
  /\ UNCHANGED <<gitVars, cache, calls, extPushes>>

(***************************************************************************)
(* Repo.replacePath (repo.js 45-68) and its helpers.                       *)
(***************************************************************************)
\* path is a file of directory dir ("" is the working directory itself)
Under(dir, path) == dir = <<>> \/ StartsWith(path, dir \o <<SLASH>>)

\* `${fqPath}/${file}.json`, relative to the working directory
FqFile(dir, file) ==
  IF dir = <<>> THEN file \o JsonExt ELSE dir \o <<SLASH>> \o file \o JsonExt

\* fse.outputJsonSync(target) throws when a directory of target is a file of
\* the working directory (ENOTDIR) or target is a directory there (EISDIR)
IsFileOnTheWay(wd, target) ==
  \E g \in DOMAIN wd : StartsWith(target, g \o <<SLASH>>)
IsDirectory(wd, target) ==
  \E g \in DOMAIN wd : StartsWith(g, target \o <<SLASH>>)

\* lines 88-90: one .json file per entry of files, in the order of
\* Object.keys(files); a throw leaves the files written before it
RECURSIVE OutputFiles(_, _, _, _, _)
OutputFiles(wd, dir, files, keys, i) ==
  IF i > Len(keys) THEN [ok |-> TRUE, error |-> "", workdir |-> wd]
  ELSE LET target == FqFile(dir, keys[i])
       IN IF IsFileOnTheWay(wd, target)
            THEN [ok |-> FALSE, error |-> "ENOTDIR", workdir |-> wd]
            ELSE IF IsDirectory(wd, target)
              THEN [ok |-> FALSE, error |-> "EISDIR", workdir |-> wd]
              ELSE OutputFiles(Put(wd, target, Blob(files[keys[i]])), dir, files,
                               keys, i + 1)

\* writeFiles: hard reset to the parent commit (untracked files stay),
\* rimraf of the directory's entries, the files of the request, then
\* everything in the working directory is staged; when a file cannot be
\* written the index stays as the reset left it
WriteFiles(parentTree, oldWorkdir, oldIndex, dir, files, keys) ==
  LET untracked == (DOMAIN oldWorkdir) \ (DOMAIN oldIndex)
      afterReset == [f \in (DOMAIN parentTree) \cup untracked |->
                       IF f \in DOMAIN parentTree THEN parentTree[f] ELSE oldWorkdir[f]]
      kept == {f \in DOMAIN afterReset : ~Under(dir, f)}
      output == OutputFiles([f \in kept |-> afterReset[f]], dir, files, keys, 1)
  IN [ok |-> output.ok, error |-> output.error, workdir |-> output.workdir,
      index |-> IF output.ok THEN output.workdir ELSE parentTree]

\* line 47, lock().  extResolve counts the pushes of other clients when the
\* call took the gate and, after line 50, when it resolved its versions.
ReplacePathCall(p) ==
  /\ pc[p] = "idle"
  /\ FirstFree(p, {o \in Callers : pc[o] # "idle"})
  /\ calls < MaxCalls
  /\ Len(commits) + Reserved + 2 <= MaxCommits
  /\ calls' = calls + 1
  /\ op' = [op EXCEPT ![p] =
       [kind |-> "replacePath", ok |-> TRUE, error |-> "",
        parentVersion |-> UNDEFINED, updateBranch |-> UNDEFINED,
        path |-> <<>>, files |-> <<>>, waited |-> ~LockFree(lock),
        parentCommit |-> NoCommit, branchCommit |-> NoCommit,
        newCommit |-> NoCommit, resultCommit |-> NoCommit, commitHash |-> "",
        originBranch |-> NoCommit, extResolve |-> extPushes, delivered |-> FALSE,
        ext |-> 0]]
  /\ IF LockFree(lock)
       THEN lock' = LockTake(lock) /\ pc' = [pc EXCEPT ![p] = "r_resolve"]
       ELSE lock' = LockEnqueue(lock, p) /\ pc' = [pc EXCEPT ![p] = "r_wait"]
  /\ UNCHANGED <<gitVars, cache, log, access, extPushes>>

ReplacePathAcquire(p) ==
  /\ pc[p] = "r_wait"
  /\ LockCanGrant(lock, p)
  /\ lock' = LockGrant(lock)
  /\ pc' = [pc EXCEPT ![p] = "r_resolve"]
  /\ op' = [op EXCEPT ![p].extResolve = extPushes]
  /\ UNCHANGED <<gitVars, cache, log, calls, access, extPushes>>

\* lines 49-50: the parent and the update branch, from the clone's
\* references as they are (nothing is fetched).  The arguments of the call
\* are first read here, so they are drawn here.
ReplacePathResolve(p, w) ==
  /\ pc[p] = "r_resolve"
  /\ LET parentCommit == GetCommitByVersion(tracking, have, w.parentVersion)
         branchCommit == GetCommitForUpdateBranch(tracking,
                           OrElse(w.updateBranch, w.parentVersion))
         o == [op[p] EXCEPT !.parentVersion = w.parentVersion,
                            !.updateBranch = w.updateBranch,
                            !.path = w.path, !.files = w.files]
     IN IF parentCommit = NoCommit
          THEN ThrowOf(p, o, NotFoundMessage(w.parentVersion))
          ELSE IF branchCommit = NoCommit
            THEN ThrowOf(p, o, "Invalid or missing update branch")
            ELSE /\ op' = [op EXCEPT ![p] =
                          [o EXCEPT !.parentCommit = parentCommit,
                                    !.branchCommit = branchCommit,
                                    !.originBranch = GetReferenceCommit(remote,
                                       OrElse(w.updateBranch, w.parentVersion)),
                                    !.extResolve = extPushes]]
                 /\ pc' = [pc EXCEPT ![p] = "r_write"]
                 /\ UNCHANGED <<lock, log>>
  /\ UNCHANGED <<gitVars, cache, calls, access, extPushes>>

\* line 51, writeFiles.  The order of the keys of files is the request's.
ReplacePathWrite(p) ==
  /\ pc[p] = "r_write"
  /\ \E keys \in WalkOrders(DOMAIN op[p].files) :
       LET written == WriteFiles(commits[op[p].parentCommit].tree, workdir, index,
                                 op[p].path, op[p].files, keys)
       IN /\ head' = op[p].parentCommit
          /\ workdir' = written.workdir
          /\ index' = written.index
          /\ IF written.ok
               THEN /\ pc' = [pc EXCEPT ![p] = "r_commit"]
                    /\ UNCHANGED <<lock, op, log>>
               ELSE ThrowOf(p, op[p], written.error)
  /\ UNCHANGED <<commits, remote, tracking, have, cache, calls, access, extPushes>>

\* commitAndMerge without the check of index.hasConflicts()
CommitAndMergeNoConflictCheck(store, parentCommit, branchCommit, tree) ==
  LET commit == Len(store) + 1
      store1 == Append(store, Commit(tree, <<parentCommit>>))
      merge == MergeCommits(store1, branchCommit, commit)
      mergeCommit == Len(store1) + 1
  IN IF IsAncestor(store1, branchCommit, commit)
       THEN [ok |-> TRUE, store |-> store1, head |-> commit, commit |-> commit,
             result |-> commit]
       ELSE [ok |-> TRUE,
             store |-> Append(store1, Commit(merge.tree, <<commit, branchCommit>>)),
             head |-> mergeCommit, commit |-> commit, result |-> mergeCommit]

\* commitAndMerge with the parents of the merge commit the other way round
CommitAndMergeSwapped(store, parentCommit, branchCommit, tree) ==
  LET commit == Len(store) + 1
      store1 == Append(store, Commit(tree, <<parentCommit>>))
      merge == MergeCommits(store1, branchCommit, commit)
      mergeCommit == Len(store1) + 1
  IN IF IsAncestor(store1, branchCommit, commit)
       THEN [ok |-> TRUE, store |-> store1, head |-> commit, commit |-> commit,
             result |-> commit]
       ELSE IF merge.hasConflicts
         THEN [ok |-> FALSE, store |-> store1, head |-> commit, commit |-> commit,
               result |-> NoCommit]
         ELSE [ok |-> TRUE,
               store |-> Append(store1, Commit(merge.tree, <<branchCommit, commit>>)),
               head |-> mergeCommit, commit |-> commit, result |-> mergeCommit]

\* commitAndMerge as it was before isAncestor (main.js 126-130): no merge
\* only when the update-branch commit is the parent commit itself
CommitAndMergeShaCompare(store, parentCommit, branchCommit, tree) ==
  LET commit == Len(store) + 1
      store1 == Append(store, Commit(tree, <<parentCommit>>))
      merge == MergeCommits(store1, branchCommit, commit)
      mergeCommit == Len(store1) + 1
  IN IF branchCommit = parentCommit
       THEN [ok |-> TRUE, store |-> store1, head |-> commit, commit |-> commit,
             result |-> commit]
       ELSE IF merge.hasConflicts
         THEN [ok |-> FALSE, store |-> store1, head |-> commit, commit |-> commit,
               result |-> NoCommit]
         ELSE [ok |-> TRUE,
               store |-> Append(store1, Commit(merge.tree, <<commit, branchCommit>>)),
               head |-> mergeCommit, commit |-> commit, result |-> mergeCommit]

\* commitAndMerge: the new commit on top of the parent; when the update
\* branch's commit is not among its ancestors, the merge of the two
CommitAndMerge(store, parentCommit, branchCommit, tree) ==
  LET commit == Len(store) + 1
      store1 == Append(store, Commit(tree, <<parentCommit>>))
      merge == MergeCommits(store1, branchCommit, commit)
      mergeCommit == Len(store1) + 1
  IN IF IsAncestor(store1, branchCommit, commit)
       THEN [ok |-> TRUE, store |-> store1, head |-> commit, commit |-> commit,
             result |-> commit]
       ELSE IF merge.hasConflicts
         THEN [ok |-> FALSE, store |-> store1, head |-> commit, commit |-> commit,
               result |-> NoCommit]
         ELSE [ok |-> TRUE,
               store |-> Append(store1, Commit(merge.tree, <<commit, branchCommit>>)),
               head |-> mergeCommit, commit |-> commit, result |-> mergeCommit]

\* lines 52-58
ReplacePathCommit(p) ==
  /\ pc[p] = "r_commit"
  /\ LET r == CommitAndMerge(commits, op[p].parentCommit, op[p].branchCommit, index)
     IN /\ commits' = r.store
        /\ head' = r.head
        /\ have' = have \cup (1..Len(r.store) \ 1..Len(commits))
        /\ IF r.ok
             THEN /\ op' = [op EXCEPT ![p].newCommit = r.commit,
                                      ![p].resultCommit = r.result,
                                      ![p].commitHash = Sha(r.result)]
                  /\ pc' = [pc EXCEPT ![p] = "r_push"]
                  /\ UNCHANGED <<lock, log>>
             ELSE /\ lock' = Unlock(lock)
                  /\ pc' = [pc EXCEPT ![p] = "idle"]
                  /\ log' = Finished(log, [op[p] EXCEPT !.ok = FALSE,
                                           !.error = "Merge conflict",
                                           !.newCommit = r.commit])
                  /\ op' = [op EXCEPT ![p] = NoOp]
  /\ UNCHANGED <<remote, tracking, workdir, index, cache, calls, access, extPushes>>

\* remote.push(`HEAD:refs/heads/${branch}`): the origin takes the push when
\* it is delivered and the branch is new or fast-forwards; the clone's
\* remote-tracking branch follows.  A push that is not taken reports nothing.
Push(rem, trk, store, hd, branch, delivered) ==
  LET name == Interpolate(branch)
      taken == /\ delivered
               /\ (name \notin DOMAIN rem \/ IsAncestor(store, rem[name], hd))
  IN IF taken
       THEN [remote |-> Put(rem, name, hd), tracking |-> Put(trk, name, hd)]
       ELSE [remote |-> rem, tracking |-> trk]

\* the check after the push made against the remote-tracking master
PushCheckMaster(trk, hd, branch) ==
  IF GetReferenceCommit(trk, "m") = NoCommit THEN "reference not found"
  ELSE IF Sha(hd) # Sha(GetReferenceCommit(trk, "m")) THEN "Push to remote failed"
  ELSE ""

\* pushHeadToOrigin's check after the push: "" when HEAD and the
\* remote-tracking branch agree, else the error thrown
PushCheck(trk, hd, branch) ==
  IF GetReferenceCommit(trk, branch) = NoCommit THEN "reference not found"
  ELSE IF Sha(hd) # Sha(GetReferenceCommit(trk, branch)) THEN "Push to remote failed"
  ELSE ""

\* lines 59-63: pushHeadToOrigin(repo, updateBranch), unlock(), return
ReplacePathPush(p) ==
  /\ pc[p] = "r_push"
  /\ \E delivered \in BOOLEAN :
       LET pushed == Push(remote, tracking, commits, head, op[p].updateBranch, delivered)
           error == PushCheck(pushed.tracking, head, op[p].updateBranch)
       IN /\ remote' = pushed.remote
          /\ tracking' = pushed.tracking
          /\ lock' = Unlock(lock)
          /\ pc' = [pc EXCEPT ![p] = "idle"]
          /\ log' = Finished(log, [op[p] EXCEPT !.ok = (error = ""), !.error = error,
                                                !.delivered = delivered,
                                                !.ext = extPushes])
          /\ op' = [op EXCEPT ![p] = NoOp]
  /\ UNCHANGED <<commits, have, head, workdir, index, cache, calls, access, extPushes>>

(***************************************************************************)
(* The specification.                                                      *)
(***************************************************************************)
Next ==
  \/ \E b \in PushBranches, e \in ExternalEdits : ExternalPush(b, e)
  \/ \E p \in Callers : GetDataCall(p)
  \/ \E p \in Callers : GetDataAcquire(p)
  \/ \E p \in Callers : GetDataFetch(p)
  \/ \E p \in Callers, v \in ReadVersions : GetDataResolve(p, v)
  \/ \E p \in Callers : GetDataUpdate(p)
  \/ \E p \in Callers : GetDataReturn(p)
  \/ \E p \in Callers : ReplacePathCall(p)
  \/ \E p \in Callers : ReplacePathAcquire(p)
  \/ \E p \in Callers, w \in WriteRequests : ReplacePathResolve(p, w)
  \/ \E p \in Callers : ReplacePathWrite(p)
  \/ \E p \in Callers : ReplacePathCommit(p)
  \/ \E p \in Callers : ReplacePathPush(p)

Spec == Init /\ [][Next]_vars

\* What the code's scheduling guarantees: a call that can take its next step
\* (its I/O completes, its continuation runs, the free gate is handed to the
\* first waiting call) eventually takes it.  Every step of a call moves its
\* program counter, so the step is written through pc alone.
CanProceed(p) ==
  \/ pc[p] \in Critical
  \/ pc[p] \in Waiting /\ LockCanGrant(lock, p)

Proceed(p) ==
  /\ CanProceed(p)
  /\ \E label \in Critical \cup {"idle"} :
       /\ label # pc[p]
       /\ pc' = [pc EXCEPT ![p] = label]

FairSpec == Spec /\ \A p \in Callers : WF_pc(Proceed(p))

(***************************************************************************)
(* The claims.                                                             *)
(***************************************************************************)
Holders == {p \in Callers : pc[p] \in Critical}
LastLog == log[Len(log)]
IsRead(e) == e.kind = "getData"
IsWrite(e) == e.kind = "replacePath"

\* the result getData gives for a query on a snapshot
QueryResult(snapshot, path, listFiles) ==
  IF listFiles THEN Obj(GetFiles(snapshot, path)) ELSE GetObject(snapshot, path)

\* the snapshots the builder can make of commit i
SnapshotsOf(i) ==
  {[commitHash |-> Sha(i), object |-> built.object, files |-> built.files] :
     built \in {b \in {BuildData(order, commits[i].tree) :
                         order \in WalkOrders(GetFileEntries(commits[i].tree))} : b.ok}}

\* C1: at most one call is between its lock acquisition and its unlock at
\* any instant, and the gate is locked whenever a call is in that section.
C1_OneOperationInGate ==
  /\ Cardinality(Holders) <= 1
  /\ Holders # {} => lock.locked

C1_Witness ==
  \E p, o \in Callers : pc[p] \in Critical /\ pc[o] \in Waiting

\* C2: every call that ends in an error has released the gate when the error
\* reaches the caller, and every call waiting for the gate eventually holds it.
C2_GateReleasedOnFailure ==
  /\ [][\A p \in Callers :
          (pc[p] \in Critical /\ pc'[p] = "idle") => ~lock'.locked]_vars
  /\ \A p \in Callers : (pc[p] \in Waiting) ~> (pc[p] \in Critical)

C2_Witness ==
  /\ Len(log) > 0
  /\ ~LastLog.ok
  /\ \E p \in Callers : pc[p] \in Critical /\ op[p].waited

\* C3: every successful getData returns the hash of the commit its own
\* version resolved to, and data taken from a snapshot of that commit.
C3_OwnSnapshot ==
  \A i \in 1..Len(log) :
    (IsRead(log[i]) /\ log[i].ok) =>
      /\ log[i].commit \in 1..Len(commits)
      /\ log[i].commitHash = Sha(log[i].commit)
      /\ \E snapshot \in SnapshotsOf(log[i].commit) :
           \A q \in ReadQueries :
             log[i].data[q] = QueryResult(snapshot, q.path, q.listFiles)

C3_Witness ==
  /\ Len(log) = 2
  /\ IsRead(log[1]) /\ log[1].ok
  /\ IsRead(log[2]) /\ log[2].ok /\ log[2].waited
  /\ log[1].commit # log[2].commit
  /\ log[1].data # log[2].data

\* C4: every access to the cache, read or write, is made by a call that
\* holds the gate at that moment; none is made after the call's unlock().
C4_AccessInsideGate ==
  access.kind # "none" => access.held

\* C5: the cache is the constructor's empty cache or a whole snapshot of one
\* commit, and a read that fails leaves the cache as it was when the read
\* took the gate.
C5_CacheWhole ==
  \/ cache = CacheInit
  \/ \E i \in 1..Len(commits) : Sha(i) = cache.commitHash /\ cache \in SnapshotsOf(i)

C5_ReadFailureKeepsCache ==
  /\ []C5_CacheWhole
  /\ [][\A p \in Callers :
          (pc[p] \in ReadSteps /\ pc'[p] = "idle" /\ ~log'[Len(log')].ok)
            => cache' = op[p].cache0]_vars

C5_Witness ==
  /\ Len(log) > 0
  /\ IsRead(LastLog) /\ ~LastLog.ok /\ LastLog.error = "parse error"
  /\ cache # CacheInit
  /\ cache = LastLog.cache0

\* C6: of two reads in a row that resolve to the same commit, the second does
\* not rebuild the snapshot and returns the same hash and, for the same
\* query, the same data.
C6_SecondReadFromCache ==
  (Len(log) = 2 /\ IsRead(log[1]) /\ log[1].ok /\ IsRead(log[2]) /\ log[2].ok
     /\ log[1].commit = log[2].commit) =>
    /\ ~log[2].rebuilt
    /\ log[2].commitHash = log[1].commitHash
    /\ \A q \in ReadQueries : log[2].data[q] = log[1].data[q]

C6_Witness ==
  /\ Len(log) = 2 /\ IsRead(log[1]) /\ log[1].ok /\ IsRead(log[2]) /\ log[2].ok
  /\ log[1].commit = log[2].commit
  /\ log[1].rebuilt

\* the nested object made of the entries of a flat map, set in some order
RECURSIVE NestFrom(_, _, _)
NestFrom(files, order, object) ==
  IF order = <<>> THEN object
  ELSE NestFrom(files, Tail(order), LodashSet(object, Split(Head(order)), files[Head(order)]))

\* C7: the flat map and the nested object of the cache agree: the nested
\* object holds at each flat key's path that key's value, and holds nothing
\* but the flat map's documents at their paths.
C7_FlatAndNestedAgree ==
  cache # CacheInit =>
    /\ \A key \in DOMAIN cache.files :
         LodashGet(cache.object, Split(key)) = cache.files[key]
    /\ \E order \in WalkOrders(DOMAIN cache.files) :
         NestFrom(cache.files, order, EmptyObj) = cache.object

\* a successful write with an update branch, then a read of that branch,
\* with no push of another client in between
WriteThenRead ==
  /\ Len(log) = 2
  /\ IsWrite(log[1]) /\ log[1].ok /\ log[1].updateBranch # UNDEFINED
  /\ IsRead(log[2]) /\ log[2].ok /\ log[2].version = log[1].updateBranch
  /\ log[2].ext = log[1].ext

IsDocument(f) == EndsWith(f, JsonExt)
TreePaths(a, b) == (DOMAIN a) \cup (DOMAIN b)

\* the documents of files are in tree under dir
FilesPresent(tree, dir, files) ==
  \A file \in DOMAIN files : BlobAt(tree, FqFile(dir, file)) = Blob(files[file])

\* the paths at which two trees differ
Changed(a, b) == {f \in TreePaths(a, b) : BlobAt(a, f) # BlobAt(b, f)}

\* the paths a write of files to dir replaces in the parent's tree
Replaced(parentTree, dir, files) ==
  {f \in DOMAIN parentTree : Under(dir, f)} \cup {FqFile(dir, file) : file \in DOMAIN files}

\* the update-branch commit of call o is past its parent commit
Advanced(o) ==
  /\ o.branchCommit # o.parentCommit
  /\ IsAncestor(commits, o.parentCommit, o.branchCommit)

\* C8: the read after a successful write returns the hash the write
\* returned, and its commit has the written documents under the path and,
\* outside the path, the documents of the commit the write started from.
C8_ReadAfterWrite ==
  WriteThenRead =>
    LET tree == commits[log[2].commit].tree
        parentTree == commits[log[1].parentCommit].tree
    IN /\ log[2].commitHash = log[1].commitHash
       /\ FilesPresent(tree, log[1].path, log[1].files)
       /\ \A f \in TreePaths(tree, parentTree) :
            (IsDocument(f) /\ ~Under(log[1].path, f))
              => BlobAt(tree, f) = BlobAt(parentTree, f)

\* C9 as stated: the commit a successful write returns has the parent commit
\* as its first parent and, when the update-branch commit is not an ancestor
\* of the new commit, the update-branch commit as its second parent.
C9_ParentIsFirstParent ==
  \A i \in 1..Len(log) :
    (IsWrite(log[i]) /\ log[i].ok) =>
      LET parents == commits[log[i].resultCommit].parents
      IN /\ parents[1] = log[i].parentCommit
         /\ ~IsAncestor(commits, log[i].branchCommit, log[i].newCommit)
              => (Len(parents) = 2 /\ parents[2] = log[i].branchCommit)

\* C9 as amended: the new commit has the parent commit as its only parent;
\* a successful write returns the new commit when the update-branch commit is
\* among its ancestors, and otherwise a merge commit whose first parent is
\* the new commit and whose second parent is the update-branch commit.
C9_ParentsOfResult ==
  \A i \in 1..Len(log) :
    (IsWrite(log[i]) /\ log[i].ok) =>
      LET w == log[i]
      IN /\ commits[w.newCommit].parents = <<w.parentCommit>>
         /\ w.commitHash = Sha(w.resultCommit)
         /\ IF IsAncestor(commits, w.branchCommit, w.newCommit)
              THEN w.resultCommit = w.newCommit
              ELSE commits[w.resultCommit].parents = <<w.newCommit, w.branchCommit>>

C9_Witness ==
  \E i \in 1..Len(log) :
    /\ IsWrite(log[i]) /\ log[i].ok
    /\ ~IsAncestor(commits, log[i].branchCommit, log[i].newCommit)

\* the update branch of write w was, at the origin, past the parent commit
\* with changes to none of the paths the write replaces when the write
\* resolved its versions; no other client has pushed since, and the push
\* reached the origin
DivergedWrite(w) ==
  /\ IsWrite(w)
  /\ w.parentCommit # NoCommit
  /\ w.updateBranch # UNDEFINED
  /\ w.originBranch # NoCommit
  /\ w.originBranch # w.parentCommit
  /\ IsAncestor(commits, w.parentCommit, w.originBranch)
  /\ Changed(commits[w.parentCommit].tree, commits[w.originBranch].tree)
       \cap Replaced(commits[w.parentCommit].tree, w.path, w.files) = {}
  /\ w.ext = w.extResolve
  /\ w.delivered

\* C10: a write whose update branch has advanced past the write's parent
\* with changes to other paths than the write replaces succeeds with a
\* two-parent commit that has the written documents and every change the
\* branch made, and a following read of the update branch returns that commit.
C10_DivergedBranchIsMerged ==
  \A i \in 1..Len(log) :
    LET w == log[i]
    IN DivergedWrite(w) =>
         /\ w.ok
         /\ Len(commits[w.resultCommit].parents) = 2
         /\ FilesPresent(commits[w.resultCommit].tree, w.path, w.files)
         /\ \A f \in Changed(commits[w.parentCommit].tree, commits[w.originBranch].tree) :
              BlobAt(commits[w.resultCommit].tree, f) = BlobAt(commits[w.originBranch].tree, f)
         /\ (i = 1 /\ WriteThenRead) =>
              /\ log[2].commit = w.resultCommit
              /\ log[2].commitHash = w.commitHash

\* the step of caller p that ends a write with the merge-conflict error,
\* without a push and with the origin as it was
EndsInMergeConflict(p) ==
  /\ pc'[p] = "idle"
  /\ remote' = remote
  /\ tracking' = tracking
  /\ ~log'[Len(log')].ok
  /\ log'[Len(log')].error = "Merge conflict"

C12_RemoteChangesOnlyOnSuccess ==
  [][\A p \in Callers :
       ((pc[p] \in WriteSteps \cup {"r_wait"} \/ pc'[p] \in WriteSteps \cup {"r_wait"})
          /\ pc'[p] # pc[p] /\ remote' # remote)
       => /\ pc[p] = "r_push" /\ pc'[p] = "idle"
          /\ log'[Len(log')].ok
          /\ log'[Len(log')].commitHash = Sha(head)]_vars

C12_Witness ==
  /\ Len(log) > 0
  /\ IsWrite(LastLog) /\ ~LastLog.ok /\ LastLog.error = "Push to remote failed"
  /\ LastLog.delivered
  /\ remote # InitRefs

\* C13: the push of a replacePath call without an updateBranch goes to the
\* origin's branch named by the parent version and to no other, and the call
\* returns a commit hash only when that branch and its remote-tracking branch
\* are at HEAD.
C13_ParentVersionIsUpdateBranch ==
  [][\A p \in Callers :
       (pc[p] = "r_push" /\ pc'[p] = "idle" /\ op[p].updateBranch = UNDEFINED)
       => /\ DOMAIN remote' = DOMAIN remote
          /\ \A b \in DOMAIN remote \ {op[p].parentVersion} : remote'[b] = remote[b]
          /\ log'[Len(log')].ok =>
               /\ remote'[op[p].parentVersion] = head
               /\ tracking'[op[p].parentVersion] = head]_vars

\* the commit a version token names at the origin
OriginCommit(version) == GetCommitByVersion(remote, 1..Len(commits), version)

\* C14: a call that resolves a version token has fetched since it took the
\* gate: when no other client has pushed since the fetch of a read, or since
\* a write took the gate, the version of the read, the parent version and the
\* update branch resolve to the commits they name at the origin; and a fetch
\* that fails ends the call with an error.
C14_ResolvedAfterFetch ==
  [][\A p \in Callers :
       /\ (pc[p] = "g_fetch" /\ pc'[p] # "g_fetch")
            => \/ pc'[p] = "g_resolve" /\ tracking' = remote
               \/ pc'[p] = "idle" /\ ~log'[Len(log')].ok
       /\ (pc[p] = "g_resolve" /\ pc'[p] = "g_update" /\ extPushes = op[p].ext)
            => op'[p].commit = OriginCommit(op'[p].version)
       /\ (pc[p] = "r_resolve" /\ pc'[p] = "r_write" /\ extPushes = op[p].extResolve)
            => /\ op'[p].parentCommit = OriginCommit(op'[p].parentVersion)
               /\ op'[p].branchCommit
                    = OriginCommit(OrElse(op'[p].updateBranch, op'[p].parentVersion))]_vars

\* what a version token names in the clone: the tip of the remote-tracking
\* branch of that name, else the commit with that hash, else nothing
NamedCommit(version) ==
  IF version \in DOMAIN tracking THEN tracking[version]
  ELSE IF \E i \in have : Sha(i) = version THEN CHOOSE i \in have : Sha(i) = version
  ELSE NoCommit

\* C15: a version token resolves to the tip of the remote-tracking branch of
\* that name when there is one, otherwise to the commit with that hash; when
\* there is neither, the call ends with the not-found error that quotes the
\* token and the gate is released.  (The read mode is not looked at before
\* the result is made, so both modes resolve alike.)
C15_BranchThenCommitElseNotFound ==
  [][\A p \in Callers :
       /\ (pc[p] = "g_resolve" /\ pc'[p] = "g_update")
            => /\ NamedCommit(op'[p].version) # NoCommit
               /\ op'[p].commit = NamedCommit(op'[p].version)
       /\ (pc[p] = "g_resolve" /\ pc'[p] = "idle")
            => LET e == log'[Len(log')]
               IN /\ NamedCommit(e.version) = NoCommit
                  /\ ~e.ok
                  /\ e.error = "Branch or commit not found: 'zz'"
                  /\ e.version = "zz"
                  /\ ~lock'.locked
       /\ (pc[p] = "r_resolve" /\ pc'[p] = "r_write")
            => /\ NamedCommit(op'[p].parentVersion) # NoCommit
               /\ op'[p].parentCommit = NamedCommit(op'[p].parentVersion)
       /\ (pc[p] = "r_resolve" /\ pc'[p] = "idle"
              /\ NamedCommit(log'[Len(log')].parentVersion) = NoCommit)
            => LET e == log'[Len(log')]
               IN /\ ~e.ok
                  /\ e.error = "Branch or commit not found: 'zz'"
                  /\ e.parentVersion = "zz"
                  /\ ~lock'.locked]_vars

C15_Witness ==
  /\ Len(log) = 2
  /\ IsRead(log[1]) /\ ~log[1].ok /\ log[1].version = "zz"
  /\ IsRead(log[2]) /\ log[2].ok /\ log[2].version = "c1" /\ log[2].waited

\* C16: a write returns a commit hash only when, after the push, the
\* remote-tracking branch of its update branch (the parent version when no
\* update branch is given) is at HEAD, and the hash is HEAD's; when the two
\* differ the write ends with the push-verification error.
C16_VerifiedAgainstUpdateBranch ==
  [][\A p \in Callers :
       (pc[p] = "r_push" /\ pc'[p] = "idle")
       => LET e == log'[Len(log')]
              branch == OrElse(op[p].updateBranch, op[p].parentVersion)
              same == branch \in DOMAIN tracking' /\ tracking'[branch] = head
          IN /\ e.ok => (same /\ e.commitHash = Sha(head))
             /\ ~same => (~e.ok /\ e.error = "Push to remote failed")]_vars

\* a document of the tree has the store path that is a directory of another
\* document (a.json next to a/b.json)
Collides(tree) ==
  \E f, g \in GetFileEntries(tree) :
    StrictSegPrefix(Split(SliceEnd(f, 5)), Split(SliceEnd(g, 5)))

\* C17: the build of a snapshot from a commit in which a document's path is
\* a directory of another document's path ends the read with an error and
\* installs nothing: the cache stays as it was.
C17_CollisionFailsBuild ==
  [][\A p \in Callers :
       (pc[p] = "g_update" /\ pc'[p] # "g_update"
          /\ Collides(commits[op[p].commit].tree))
       => /\ pc'[p] = "idle"
          /\ ~log'[Len(log')].ok
          /\ cache' = cache]_vars

\* the snapshot holds a document below directory dir
HasDocumentsUnder(snapshot, dir) ==
  \E f \in DOMAIN snapshot.files : Under(dir, f)

\* C18: a successful list-files read whose path is not empty and has no
\* document below it in the commit read (it names a document, or a directory
\* that does not exist) returns the empty map.
C18_NoChildrenListsNothing ==
  \A i \in 1..Len(log) :
    (IsRead(log[i]) /\ log[i].ok) =>
      \A q \in ReadQueries, snapshot \in SnapshotsOf(log[i].commit) :
        (q.listFiles /\ q.path # <<>> /\ ~HasDocumentsUnder(snapshot, q.path))
        => DOMAIN log[i].data[q].f = {}

\* the key of document f relative to directory dir
RelativeTo(dir, f) ==
  IF dir = <<>> THEN f ELSE SubSeq(f, Len(dir) + 2, Len(f))

\* the documents of the snapshot below dir, keyed relative to dir
ListedUnder(snapshot, dir) ==
  LET below == {f \in DOMAIN snapshot.files : Under(dir, f)}
  IN [rel \in {RelativeTo(dir, f) : f \in below} |->
        snapshot.files[CHOOSE f \in below : RelativeTo(dir, f) = rel]]

\* C19: a successful list-files read of a directory that holds documents
\* returns exactly the documents below the directory, each under its path
\* relative to the directory; with the empty path it returns every document
\* under its full path.
C19_DirectoryListedRelative ==
  \A i \in 1..Len(log) :
    (IsRead(log[i]) /\ log[i].ok) =>
      \E snapshot \in SnapshotsOf(log[i].commit) :
        \A q \in ReadQueries :
          (q.listFiles /\ HasDocumentsUnder(snapshot, q.path))
          => log[i].data[q] = Obj(ListedUnder(snapshot, q.path))

\* C20: a step of a replacePath call other than its successful push changes
\* neither the remote nor the remote-tracking branches nor the cache, so a
\* read after a failed write resolves and returns what it would have without
\* it; and the tree a write stages has, outside its path, exactly the files
\* of its parent commit, whatever an earlier failed write left behind.
C20_FailedWriteLeavesNoTrace ==
  [][\A p \in Callers :
       /\ (/\ pc[p] \in {"r_resolve", "r_write", "r_commit", "r_push"}
           /\ pc'[p] # pc[p]
           /\ ~(pc[p] = "r_push" /\ log'[Len(log')].ok))
          => (remote' = remote /\ tracking' = tracking /\ cache' = cache)
       /\ (pc[p] = "r_write" /\ pc'[p] = "r_commit")
          => LET parentTree == commits[op[p].parentCommit].tree
             IN \A f \in TreePaths(index', parentTree) :
                  ~Under(op[p].path, f) => BlobAt(index', f) = BlobAt(parentTree, f)]_vars

\* commit a is commit c or is found by going back from c along parents
RECURSIVE Reaches(_, _, _)
Reaches(store, c, a) ==
  \/ c = a
  \/ \E i \in DOMAIN store[c].parents : Reaches(store, store[c].parents[i], a)

\* C21: the reconcile step ends, and it performs no merge exactly when the
\* update-branch commit is the parent commit or one of its ancestors: then
\* the new single-parent commit is the result; otherwise a merge is
\* attempted, which ends in the merge-conflict error or in a merge commit
\* of the new commit and the update-branch commit.
C21_NoMergeIffReachable ==
  [][\A p \in Callers :
       (pc[p] = "r_commit" /\ pc'[p] # "r_commit") =>
         LET new == Len(commits) + 1
             ended == log'[Len(log')]
         IN /\ Len(commits') > Len(commits)
            /\ commits'[new].parents = <<op[p].parentCommit>>
            /\ IF Reaches(commits, op[p].parentCommit, op[p].branchCommit)
                 THEN /\ Len(commits') = new
                      /\ pc'[p] = "r_push"
                      /\ op'[p].resultCommit = new
                 ELSE \/ /\ Len(commits') = new
                         /\ pc'[p] = "idle"
                         /\ ~ended.ok /\ ended.error = "Merge conflict"
                      \/ /\ Len(commits') = new + 1
                         /\ pc'[p] = "r_push"
                         /\ op'[p].resultCommit = new + 1
                         /\ commits'[new + 1].parents = <<new, op[p].branchCommit>>]_vars

\* a write whose update-branch commit is a proper ancestor of its parent
\* commit has ended with its new commit as the result
C21_Witness ==
  \E i \in 1..Len(log) :
    /\ IsWrite(log[i]) /\ log[i].ok
    /\ log[i].branchCommit # log[i].parentCommit
    /\ Reaches(commits, log[i].parentCommit, log[i].branchCommit)
    /\ log[i].resultCommit = log[i].newCommit

C23_NoRemoteCommitLost ==
  [][\A p \in Callers :
       (pc[p] = "r_push" /\ pc'[p] = "idle" /\ log'[Len(log')].ok)
       => LET branch == OrElse(op[p].updateBranch, op[p].parentVersion)
          IN branch \in DOMAIN remote
               => Reaches(commits, op[p].resultCommit, remote[branch])]_vars

====
